---- MODULE Spec2Model ----
(***************************************************************************)
(* Model of the notebook 01_wbt_eda.ipynb: roadside-ditch extraction from  *)
(* a Difference-from-Mean-Elevation (DFME) raster.                         *)
(*                                                                         *)
(* Numbers.  Raster samples are exact integers in hundredths of a DEM unit *)
(* (-0.15 is -15).  Statistics are exact: a rational is <<num, den>> with  *)
(* den > 0 in lowest terms, and a float the notebook computes is the exact *)
(* real  a + b * sqrt(v)  (a, b, v rational) or NaN.  Floating-point       *)
(* rounding is not modelled.  Mask values (0, 1) and nodata sentinels are  *)
(* stored as they are.                                                     *)
(*                                                                         *)
(* State.  The files the cells read and write, and the kernel's global     *)
(* names roads_buffered, dfme_data and meta, which later cells read; the   *)
(* names a cell only writes for itself (dynamic_threshold,                 *)
(* thresholded_dfme, final_result, ...) are kept as the record `last` of   *)
(* the cell that ran last.  rng_stream is the pseudo-random stream of a    *)
(* generator seeded with random_state: the library's, the same for every   *)
(* generator made from that seed.                                          *)
(***************************************************************************)
EXTENDS Integers, Sequences, FiniteSets, TLC

VARIABLES dem_file, dfme_file, thresh_file, road_file,
          roads_buffered, dfme_data, meta, last, rng_stream

vars == <<dem_file, dfme_file, thresh_file, road_file,
          roads_buffered, dfme_data, meta, last, rng_stream>>

(***************************************************************************)
(* Bounds of the model.                                                    *)
(***************************************************************************)
\* A raster has at most MaxCells cells (height * width <= MaxCells).
MaxCells == 3

\* The DEM, and with it the road mask, has at most MaxDemCells cells.
MaxDemCells == 2

\* Sample values of the residual raster, in hundredths.
SampleVals == {-30, -15, 0}

\* The pseudo-random stream of a generator is one of MaxDraw streams.
MaxDraw == 2

(***************************************************************************)
(* Exact arithmetic.                                                       *)
(***************************************************************************)
Abs(x) == IF x < 0 THEN -x ELSE x

RECURSIVE GCD(_, _)
GCD(a, b) == IF b = 0 THEN a ELSE GCD(b, a % b)

\* The rational n/d (d # 0) in lowest terms with a positive denominator.
Rat(n, d) ==
    LET g == GCD(Abs(n), Abs(d))
        s == IF d < 0 THEN -1 ELSE 1
    IN  <<(s * n) \div g, (s * d) \div g>>

RatInt(x) == <<x, 1>>
RatSub(p, q) == Rat(p[1] * q[2] - q[1] * p[2], p[2] * q[2])
RatMul(p, q) == Rat(p[1] * q[1], p[2] * q[2])
RatLess(p, q) == p[1] * q[2] < q[1] * p[2]
RatSign(p) == IF p[1] < 0 THEN -1 ELSE IF p[1] = 0 THEN 0 ELSE 1

(***************************************************************************)
(* Floats: NaN, or the exact real a + b * sqrt(v).  A cell of a float      *)
(* array is NaN or an integer sample.                                      *)
(***************************************************************************)
NaN == [nan |-> TRUE, a |-> <<0, 1>>, b |-> <<0, 1>>, v |-> <<0, 1>>]

\* a + b*sqrt(v), canonical: a vanishing root term is stored as b = 0, v = 0.
Real(a, b, v) ==
    IF b[1] = 0 \/ v[1] = 0
    THEN [nan |-> FALSE, a |-> a, b |-> <<0, 1>>, v |-> <<0, 1>>]
    ELSE [nan |-> FALSE, a |-> a, b |-> b, v |-> v]

FromRat(q) == Real(q, <<0, 1>>, <<0, 1>>)
Num(x) == FromRat(RatInt(x))
IsNaN(x) == x.nan

\* np.sqrt of a non-negative rational.
Sqrt(x) == IF IsNaN(x) THEN NaN ELSE Real(<<0, 1>>, <<1, 1>>, x.a)

\* c * x for a float constant c (a rational) and a float x.
Scale(c, x) == IF IsNaN(x) THEN NaN ELSE Real(RatMul(c, x.a), RatMul(c, x.b), x.v)

\* x - y where x is rational-valued (the only subtraction the notebook makes).
FSub(x, y) ==
    IF IsNaN(x) \/ IsNaN(y) THEN NaN
    ELSE Real(RatSub(x.a, y.a), RatSub(x.b, y.b), y.v)

\* x * y for two rational-valued floats (raster cells).
FMul(x, y) == IF IsNaN(x) \/ IsNaN(y) THEN NaN ELSE FromRat(RatMul(x.a, y.a))

\* x < t for a rational-valued x: IEEE comparison, False when either is NaN.
\* x < a + b*sqrt(v)  <=>  d < b*sqrt(v)  with d = x - a.
FLess(x, t) ==
    IF IsNaN(x) \/ IsNaN(t) THEN FALSE
    ELSE LET d   == RatSub(x.a, t.a)
             d2  == RatMul(d, d)
             b2v == RatMul(RatMul(t.b, t.b), t.v)
         IN  CASE RatSign(t.b) = 0 -> RatSign(d) < 0
               [] RatSign(t.b) > 0 -> RatSign(d) < 0 \/ RatLess(d2, b2v)
               [] OTHER            -> RatSign(d) < 0 /\ RatLess(b2v, d2)

(***************************************************************************)
(* Rasters.  A file is [h, w, v, nodata]: v the stored samples, row-major, *)
(* a nodata cell stored as the sentinel.  An array (numpy) is [h, w, v].   *)
(***************************************************************************)
\* The nodata sentinel of the DEM and of the rasters derived from it
\* (src.nodata), and the sentinels dfme.tif is given: that one, which no
\* uint8 holds, and 255, which one does.
NODATA == -9999
Nodatas == {NODATA, 255}

NoFile == [h |-> 0, w |-> 0, v |-> <<>>, nodata |-> NODATA]
Undef == [h |-> 0, w |-> 0, v |-> <<>>]
NoMeta == [h |-> 0, w |-> 0, dtype |-> "", nodata |-> NODATA]

ShapesUpTo(n) == {s \in (1..n) \X (1..n) : s[1] * s[2] <= n}
Shapes == ShapesUpTo(MaxCells)

\* Every sequence of length n over S.
SeqsOf(S, n) == [1..n -> S]

\* The residual rasters (dfme.tif) the notebook is run on.
Rasters ==
    UNION {{[h |-> s[1], w |-> s[2], v |-> v, nodata |-> nd] :
              v \in SeqsOf(SampleVals \cup {nd}, s[1] * s[2])} :
           <<s, nd>> \in Shapes \X Nodatas}

\* The candidate masks (dfme_thresholded.tif) found on disk: the notebook
\* cannot write one (see Step2), so the file is an input like dfme.tif.
Masks ==
    UNION {{[h |-> s[1], w |-> s[2], v |-> v, nodata |-> NODATA] :
              v \in SeqsOf({0, 1, NODATA}, s[1] * s[2])} :
           s \in Shapes}

\* The DEMs (input_dem.tif), one for each grid: the notebook reads a DEM's
\* grid and profile only, its elevations are never loaded (see Step1).
DEMs ==
    {[h |-> s[1], w |-> s[2], v |-> [i \in 1..(s[1] * s[2]) |-> 0], nodata |-> NODATA] :
       s \in ShapesUpTo(MaxDemCells)}

\* A kernel global not yet bound, and one bound to the value x.
Unbound == [bound |-> FALSE, cells |-> {}]

\* The grid positions <<row, col>> (from 0) a DEM can have, and the
\* footprints of the buffered roads over them: the positions whose cell
\* centre the buffer covers.  The roads are one road running north-south,
\* whose buffer covers one column of cells, or none when it runs beside
\* the grid.
Positions ==
    {q \in (0..(MaxDemCells - 1)) \X (0..(MaxDemCells - 1)) :
        (q[1] + 1) * (q[2] + 1) <= MaxDemCells}
Footprints == {{q \in Positions : q[2] = c} : c \in 0..MaxDemCells}

\* dataset.read(1): the stored samples as a float array, sentinel included.
ReadBand(f) == [h |-> f.h, w |-> f.w, v |-> [i \in 1..Len(f.v) |-> Num(f.v[i])]]

\* arr[arr == nodata] = np.nan
MaskNodata(arr, nodata) ==
    [arr EXCEPT !.v = [i \in 1..Len(arr.v) |->
                          IF arr.v[i] = Num(nodata) THEN NaN ELSE arr.v[i]]]

\* src.meta.copy()
MetaOf(f) == [h |-> f.h, w |-> f.w, dtype |-> "float32", nodata |-> f.nodata]

\* rasterio.open(path, "w", **m): a nodata value outside the range of the
\* profile's dtype raises ValueError and nothing is written.
Opens(m) == m.dtype = "uint8" => m.nodata \in 0..255

(***************************************************************************)
(* numpy reductions over a float array whose non-NaN cells are integers.   *)
(***************************************************************************)
RECURSIVE SumSeq(_)
SumSeq(s) == IF s = <<>> THEN 0 ELSE Head(s) + SumSeq(Tail(s))

RECURSIVE Insert(_, _)
Insert(x, s) ==
    IF s = <<>> THEN <<x>>
    ELSE IF x <= Head(s) THEN <<x>> \o s ELSE <<Head(s)>> \o Insert(x, Tail(s))

RECURSIVE SortAsc(_)
SortAsc(s) == IF s = <<>> THEN <<>> ELSE Insert(Head(s), SortAsc(Tail(s)))

\* arr[~np.isnan(arr)]: the non-NaN samples, in raster order, as integers.
ValidPixels(arr) ==
    LET keep == SelectSeq(arr.v, LAMBDA x : ~IsNaN(x))
    IN  [i \in 1..Len(keep) |-> keep[i].a[1]]

\* np.nanmean: the mean of the non-NaN cells; NaN (with a warning) if none.
NanMean(arr) ==
    LET s == ValidPixels(arr)
    IN  IF Len(s) = 0 THEN NaN ELSE FromRat(Rat(SumSeq(s), Len(s)))

\* np.nanvar(arr, ddof): mean of squared deviations from the nan-mean over
\* the non-NaN cells, divided by (count - ddof); NaN if count <= ddof.
NanVar(arr, ddof) ==
    LET s == ValidPixels(arr)
        n == Len(s)
        S == SumSeq(s)
        sq == [i \in 1..n |-> (n * s[i] - S) * (n * s[i] - S)]
    IN  IF n - ddof <= 0 THEN NaN
        ELSE FromRat(Rat(SumSeq(sq), n * n * (n - ddof)))

\* np.nanstd(arr): ddof = 0, the population standard deviation.
NanStd(arr) == Sqrt(NanVar(arr, 0))

\* Variant: the lower order statistic, without interpolation.
NanPercentile_lower(arr, p) ==
    LET s == SortAsc(ValidPixels(arr))
        n == Len(s)
    IN  IF n = 0 THEN NaN ELSE Num(s[((p * (n - 1)) \div 100) + 1])

\* np.nanpercentile(arr, p), method 'linear': NaN cells dropped, the rest
\* sorted, and the value at virtual index p/100*(n-1) interpolated between
\* the two neighbouring order statistics; NaN (with a warning) if none.
NanPercentile(arr, p) ==
    LET s   == SortAsc(ValidPixels(arr))
        n   == Len(s)
        pos == p * (n - 1)
        lo  == pos \div 100
        fr  == pos % 100
        hi  == IF lo + 1 < n THEN lo + 1 ELSE lo
    IN  IF n = 0 THEN NaN
        ELSE FromRat(Rat(100 * s[lo + 1] + fr * (s[hi + 1] - s[lo + 1]), 100))

\* (arr < t).astype("uint8") for a scalar t: 1 where the comparison is
\* True, 0 where it is False (a NaN cell compares False).
Below(arr, t) ==
    [h |-> arr.h, w |-> arr.w,
     v |-> [i \in 1..Len(arr.v) |-> IF FLess(arr.v[i], t) THEN 1 ELSE 0]]


(***************************************************************************)
(* Step 5, dfme_data * road_data: numpy's element-wise product with        *)
(* broadcasting.  Two axis lengths are compatible when they are equal or   *)
(* one of them is 1; otherwise the product raises ValueError.              *)
(***************************************************************************)
AxisOk(m, n) == m = n \/ m = 1 \/ n = 1
AxisLen(m, n) == IF m = 1 THEN n ELSE m

Broadcastable(x, y) == AxisOk(x.h, y.h) /\ AxisOk(x.w, y.w)

\* rasterize(road_shapes, out_shape=(height, width), fill=0): 1 at the
\* cells the footprint covers, 0 elsewhere.
Rasterize(footprint, height, width) ==
    [h |-> height, w |-> width,
     v |-> [i \in 1..(height * width) |->
              IF <<(i - 1) \div width, (i - 1) % width>> \in footprint THEN 1 ELSE 0]]

\* The cell of x that result cell (r, c) (0-based) reads.
At(x, r, c) ==
    x.v[(IF x.h = 1 THEN 0 ELSE r) * x.w + (IF x.w = 1 THEN 0 ELSE c) + 1]

\* Variant: the two rasters are added.
Multiply_add(x, y) ==
    LET h == AxisLen(x.h, y.h)
        w == AxisLen(x.w, y.w)
    IN  [h |-> h, w |-> w,
         v |-> [i \in 1..(h * w) |->
                  FromRat(RatSub(At(x, (i - 1) \div w, (i - 1) % w).a,
                                 RatSub(<<0, 1>>, At(y, (i - 1) \div w, (i - 1) % w).a)))]]

Multiply(x, y) ==
    LET h == AxisLen(x.h, y.h)
        w == AxisLen(x.w, y.w)
    IN  [h |-> h, w |-> w,
         v |-> [i \in 1..(h * w) |->
                  FMul(At(x, (i - 1) \div w, (i - 1) % w),
                       At(y, (i - 1) \div w, (i - 1) % w))]]

(***************************************************************************)
(* Statistical approach: mean_dfme - 1.5 * std_dfme, the factor adjustable.*)
(***************************************************************************)
\* The factors k the cell is run with (1.5 in the notebook).
Ks == {<<0, 1>>, <<3, 2>>, <<-1, 1>>}

\* Variant: the deviations are added to the mean.
DynamicThreshold_plus(arr, k) == FSub(NanMean(arr), Scale(RatSub(<<0, 1>>, k), NanStd(arr)))

DynamicThreshold(arr, k) == FSub(NanMean(arr), Scale(k, NanStd(arr)))

\* The percentile cut-offs the cell is run with (5 in the notebook).
Ps == {5, 50, 75}

(***************************************************************************)
(* Local adaptive thresholding, skimage threshold_local(image, block_size, *)
(* method='gaussian', offset=0):                                           *)
(*   - an even block_size raises ValueError before anything is computed;   *)
(*   - sigma = (block_size - 1) / 6; with sigma = 0 the image is returned; *)
(*   - otherwise each cell is the Gaussian-weighted mean of the cells      *)
(*     within radius int(4*sigma + 0.5) (mode 'reflect' reads only cells   *)
(*     of that window), all weights positive: NaN if the window holds a    *)
(*     NaN, the common value if the window is constant, and otherwise a    *)
(*     value strictly between the window's minimum and maximum.  The       *)
(*     weights are irrational; the model keeps the interval.               *)
(* A threshold cell is [kind, lo, hi]: "nan", "exact" (lo = hi) or "avg"   *)
(* (strictly between lo and hi).                                           *)
(***************************************************************************)
\* The block sizes the cell is run with (101 in the notebook).
BlockSizes == {1, 2, 3, 10, 101}

\* Variant: no parity check.
BlockSizeOk_any(b) == TRUE

\* if block_size % 2 == 0: raise ValueError
BlockSizeOk(b) == b % 2 # 0

Radius(b) == (4 * (b - 1) + 3) \div 6

Window(arr, i, b) ==
    LET r == (i - 1) \div arr.w
        c == (i - 1) % arr.w
    IN  {j \in 1..Len(arr.v) :
            /\ Abs(((j - 1) \div arr.w) - r) <= Radius(b)
            /\ Abs(((j - 1) % arr.w) - c) <= Radius(b)}

SetMin(S) == CHOOSE x \in S : \A y \in S : x <= y
SetMax(S) == CHOOSE x \in S : \A y \in S : y <= x

ThresholdLocal(arr, b) ==
    [i \in 1..Len(arr.v) |->
        LET win  == Window(arr, i, b)
            vals == {arr.v[j].a[1] : j \in {j \in win : ~IsNaN(arr.v[j])}}
        IN  IF b = 1
            THEN IF IsNaN(arr.v[i]) THEN [kind |-> "nan", lo |-> 0, hi |-> 0]
                 ELSE [kind |-> "exact", lo |-> arr.v[i].a[1], hi |-> arr.v[i].a[1]]
            ELSE IF \E j \in win : IsNaN(arr.v[j])
                 THEN [kind |-> "nan", lo |-> 0, hi |-> 0]
            ELSE IF SetMin(vals) = SetMax(vals)
                 THEN [kind |-> "exact", lo |-> SetMin(vals), hi |-> SetMin(vals)]
            ELSE [kind |-> "avg", lo |-> SetMin(vals), hi |-> SetMax(vals)]]

\* The outcomes of cell < threshold: bit is 1 (True) or 0 (False).
LocalBit(x, t, bit) ==
    IF IsNaN(x) \/ t.kind = "nan" THEN bit = 0
    ELSE IF t.kind = "exact" THEN bit = (IF x.a[1] < t.lo THEN 1 ELSE 0)
    ELSE IF x.a[1] <= t.lo THEN bit = 1
    ELSE IF x.a[1] >= t.hi THEN bit = 0
    ELSE bit \in {0, 1}


(***************************************************************************)
(* K-Means, sklearn KMeans(n_clusters, random_state).fit(valid_pixels) on  *)
(* one-dimensional samples:                                                *)
(*   - fewer samples than clusters (none included) raises ValueError;      *)
(*   - otherwise the fit ends on a fixed point of Lloyd's iteration: the   *)
(*     sorted samples fall into n_clusters non-empty runs, each centre is  *)
(*     the mean of its run, and no sample is nearer to another centre than *)
(*     to its own.  Which fixed point, when there are several, depends on  *)
(*     the initial centres, which are drawn from the estimator's           *)
(*     generator.                                                          *)
(* check_random_state(random_state) makes that generator anew for every    *)
(* fit: from an integer seed, a generator that starts at the head of the   *)
(* seed's stream; from None, numpy's global generator, which goes on from  *)
(* wherever earlier draws left it.                                         *)
(* cluster_centers_ is read through min(...) only, which does not depend   *)
(* on the order of the centres: the model lists them ascending.            *)
(***************************************************************************)
\* random_state=42
RandomState == 42

\* The cluster counts the cell is run with (3 in the notebook).
NClusters == {2, 3}

RECURSIVE Compositions(_, _)
RECURSIVE CompFrom(_, _, _)
\* The ways to write n as an ordered sum of k positive sizes, as a sequence.
Compositions(n, k) == IF k = 1 THEN <<<<n>>>> ELSE CompFrom(n, k, 1)
CompFrom(n, k, first) ==
    IF first > n - (k - 1) THEN <<>>
    ELSE LET rest == Compositions(n - first, k - 1)
         IN  [i \in 1..Len(rest) |-> <<first>> \o rest[i]] \o CompFrom(n, k, first + 1)

RECURSIVE GroupMeans(_, _)
GroupMeans(s, sizes) ==
    IF sizes = <<>> THEN <<>>
    ELSE <<Rat(SumSeq(SubSeq(s, 1, sizes[1])), sizes[1])>>
         \o GroupMeans(SubSeq(s, sizes[1] + 1, Len(s)), Tail(sizes))

\* The run (from 1) that holds the i-th sorted sample.
RECURSIVE GroupOf(_, _)
GroupOf(i, sizes) == IF i <= sizes[1] THEN 1 ELSE 1 + GroupOf(i - sizes[1], Tail(sizes))

\* |x - p| <= |x - q| for a sample x and centres p, q.
NoFarther(x, p, q) == Abs(x * p[2] - p[1]) * q[2] <= Abs(x * q[2] - q[1]) * p[2]

\* Lloyd's assignment step moves no sample of the grouping `sizes`.
Stable(sorted, sizes) ==
    LET means == GroupMeans(sorted, sizes)
    IN  \A i \in 1..Len(sorted) : \A g \in 1..Len(means) :
            NoFarther(sorted[i], means[GroupOf(i, sizes)], means[g])

\* The groupings a fit of the sorted samples can end on, as a sequence.
StableGroupings(sorted, n_clusters) ==
    LET comps == Compositions(Len(sorted), n_clusters)
        IsStable(sizes) == Stable(sorted, sizes)
    IN  SelectSeq(comps, IsStable)

\* kmeans.cluster_centers_ after the fit whose generator gave the stream d.
\* Which fixed point a stream leads to is the library's; the streams are
\* numbered so that each fixed point is the outcome of some stream.
ClusterCenters(samples, n_clusters, d) ==
    LET sorted == SortAsc(samples)
        ends   == StableGroupings(sorted, n_clusters)
    IN  GroupMeans(sorted, ends[((d - 1) % Len(ends)) + 1])

\* Variant: random_state=None, the fit draws from the global generator,
\* at whatever stream earlier draws left it.
SeededDraw_unseeded(seed, d) == TRUE

\* The fit's generator, made from the integer seed, gives the stream d:
\* the stream of that seed.
SeededDraw(seed, d) == d = rng_stream

RECURSIVE MinCenter(_)
\* min(kmeans.cluster_centers_)[0]
MinCenter(centers) ==
    IF Len(centers) = 1 THEN centers[1]
    ELSE LET m == MinCenter(Tail(centers))
         IN  IF RatLess(m, centers[1]) THEN m ELSE centers[1]


(***************************************************************************)
(* The cells.  `last` is what the cell that ran last computed: err is ""   *)
(* or the exception that ended it, thr its dynamic_threshold, grid its     *)
(* adaptive_threshold, centers its cluster_centers_, out the array it      *)
(* built (thresholded_dfme, road_raster or final_result), wrote the path   *)
(* it wrote out to with the profile wmeta ("" if it wrote nothing), again  *)
(* whether the run repeats the run before it (same cell, same parameters,  *)
(* same data).  A cell whose first statement fails, for a file or a name   *)
(* that does not exist, changes nothing and is left disabled.              *)
(***************************************************************************)
NoRun == [cell |-> "", err |-> "", k |-> <<0, 1>>, p |-> 0, block |-> 0,
          n_clusters |-> 0, thr |-> NaN, grid |-> <<>>, centers |-> <<>>,
          again |-> FALSE, out |-> Undef, wrote |-> "", wmeta |-> NoMeta]

\* What `last` holds after the write of array out to path under profile m,
\* the rest of the record being run.  With meta not bound in the kernel
\* (m = NoMeta) the cell ends in NameError where it names meta, the array
\* built and nothing written.
Written(run, out, path, m) ==
    IF m = NoMeta
    THEN [run EXCEPT !.out = out, !.err = "NameError"]
    ELSE IF Opens(m)
    THEN [run EXCEPT !.out = out, !.wrote = path, !.wmeta = m]
    ELSE [run EXCEPT !.out = out, !.err = "ValueError"]

\* road_mask.tif as the kernel finds it beside the DEM dem: not there, or
\* left by Step 4 of an earlier kernel, which rasterized a road along the
\* first column on the grid of dem and wrote it with the profile of dem.
RoadMasksLeft(dem) ==
    {NoFile,
     [h |-> dem.h, w |-> dem.w,
      v |-> Rasterize({q \in Positions : q[2] = 0}, dem.h, dem.w).v,
      nodata |-> MetaOf(dem).nodata]}

\* Step 1: wbt.diff_from_mean_elev(dem_path, dfme_path, filter_size=11).
\* The wrapper's parameters are (i, output, filterx, filtery, callback):
\* the keyword filter_size is none of them, and the call raises TypeError
\* before the tool is started.  dfme.tif is not written.
Step1 ==
    /\ last' = [NoRun EXCEPT !.cell = "Step1", !.err = "TypeError"]
    /\ UNCHANGED <<dem_file, dfme_file, thresh_file, road_file, roads_buffered,
                   dfme_data, meta, rng_stream>>

\* Step 2: wbt.raster_calculator(f"{dfme_path} < {threshold_value}",
\* output=thresholded_dfme_path).  The wrapper's parameters are
\* (output, statement, callback): the statement, passed by position, is
\* taken for output, which the keyword gives again, and the call raises
\* TypeError before the tool is started.  dfme_thresholded.tif is not
\* written.
Step2 ==
    /\ last' = [NoRun EXCEPT !.cell = "Step2", !.err = "TypeError"]
    /\ UNCHANGED <<dem_file, dfme_file, thresh_file, road_file, roads_buffered,
                   dfme_data, meta, rng_stream>>

\* Step 3: roads.shp (at least one road) is read, buffered by
\* buffer_distance, bound to roads_buffered and written to
\* roads_buffered.shp.
Step3 ==
    \E footprint \in Footprints :
        /\ roads_buffered' = [bound |-> TRUE, cells |-> footprint]
        /\ last' = [NoRun EXCEPT !.cell = "Step3", !.wrote = "roads_buffered.shp"]
        /\ UNCHANGED <<dem_file, dfme_file, thresh_file, road_file,
                       dfme_data, meta, rng_stream>>

\* Step 4: the DEM's profile is copied to meta; the buffered roads are
\* rasterized on the DEM's grid (1 on a road, 0 elsewhere) and written.
\* Without roads_buffered the cell ends in NameError, meta bound.
Step4 ==
    /\ dem_file # NoFile
    /\ meta' = MetaOf(dem_file)
    /\ IF roads_buffered.bound
       THEN \E road_raster \in {Rasterize(roads_buffered.cells, dem_file.h, dem_file.w)} :
              /\ last' = Written([NoRun EXCEPT !.cell = "Step4"], road_raster,
                                 "road_mask.tif", meta')
              /\ road_file' = IF Opens(meta')
                              THEN [h |-> road_raster.h, w |-> road_raster.w,
                                    v |-> road_raster.v, nodata |-> meta'.nodata]
                              ELSE road_file
       ELSE /\ last' = [NoRun EXCEPT !.cell = "Step4", !.err = "NameError"]
            /\ road_file' = road_file
    /\ UNCHANGED <<dem_file, dfme_file, thresh_file, roads_buffered, dfme_data, rng_stream>>

\* Step 5: both rasters are read raw (the candidate mask bound to
\* dfme_data), multiplied, and the product written with the kernel's meta,
\* updated in place to float32.  Shapes that do not broadcast end the cell
\* in ValueError at the product; without meta it ends in NameError at
\* meta.update, the product built and nothing written.
Step5 ==
    /\ thresh_file # NoFile /\ road_file # NoFile
    /\ \E cand \in {ReadBand(thresh_file)} : \E road_data \in {ReadBand(road_file)} :
        /\ dfme_data' = cand
        /\ IF ~Broadcastable(cand, road_data)
           THEN /\ meta' = meta
                /\ last' = [NoRun EXCEPT !.cell = "Step5", !.err = "ValueError"]
           ELSE /\ meta' = IF meta = NoMeta THEN meta
                           ELSE [meta EXCEPT !.dtype = "float32"]
                /\ last' = Written([NoRun EXCEPT !.cell = "Step5"],
                                    Multiply(cand, road_data),
                                    "final_result.tif", meta')
    /\ UNCHANGED <<dem_file, dfme_file, thresh_file, road_file, roads_buffered, rng_stream>>

\* 1. Statistical approach: dfme.tif is read, its nodata cells set to NaN
\* in the array, the threshold computed and applied, and the mask written
\* with the raster's profile as uint8.
StatCell ==
    /\ dfme_file # NoFile
    /\ \E k \in Ks :
       \E arr \in {MaskNodata(ReadBand(dfme_file), dfme_file.nodata)} :
       \E dynamic_threshold \in {DynamicThreshold(arr, k)} :
        /\ dfme_data' = arr
        /\ meta' = [MetaOf(dfme_file) EXCEPT !.dtype = "uint8"]
        /\ last' = Written([NoRun EXCEPT !.cell = "Stat", !.k = k,
                                          !.thr = dynamic_threshold],
                            Below(arr, dynamic_threshold),
                            "dfme_dynamic_thresholded.tif", meta')
    /\ UNCHANGED <<dem_file, dfme_file, thresh_file, road_file, roads_buffered, rng_stream>>

\* 2. Percentile: computed on whatever dfme_data names in the kernel, and
\* written with whatever meta names.
PctCell ==
    /\ dfme_data # Undef
    /\ \E p \in Ps : \E dynamic_threshold \in {NanPercentile(dfme_data, p)} :
        last' = Written([NoRun EXCEPT !.cell = "Pct", !.p = p,
                                      !.thr = dynamic_threshold],
                        Below(dfme_data, dynamic_threshold),
                        "dfme_percentile_thresholded.tif", meta)
    /\ UNCHANGED <<dem_file, dfme_file, thresh_file, road_file, roads_buffered,
                   dfme_data, meta, rng_stream>>

\* 3. Local adaptive thresholding.
LocalCell ==
    /\ dfme_data # Undef
    /\ \E b \in BlockSizes :
        IF BlockSizeOk(b)
        THEN \E grid \in {ThresholdLocal(dfme_data, b)} :
             \E bits \in SeqsOf({0, 1}, Len(dfme_data.v)) :
                /\ \A i \in 1..Len(bits) : LocalBit(dfme_data.v[i], grid[i], bits[i])
                /\ last' = Written([NoRun EXCEPT !.cell = "Local", !.block = b,
                                                  !.grid = grid],
                                    [h |-> dfme_data.h, w |-> dfme_data.w, v |-> bits],
                                    "dfme_local_thresholded.tif", meta)
        ELSE last' = [NoRun EXCEPT !.cell = "Local", !.block = b, !.err = "ValueError"]
    /\ UNCHANGED <<dem_file, dfme_file, thresh_file, road_file, roads_buffered,
                   dfme_data, meta, rng_stream>>

\* 4. K-Means.
KMeansCell ==
    /\ dfme_data # Undef
    /\ \E n \in NClusters : \E valid_pixels \in {ValidPixels(dfme_data)} :
       \E again \in {last.cell = "KMeans" /\ last.n_clusters = n} :
        IF Len(valid_pixels) >= n
        THEN \E d \in 1..MaxDraw :
             /\ SeededDraw(RandomState, d)
             /\ \E centers \in {ClusterCenters(valid_pixels, n, d)} :
                \E dynamic_threshold \in {FromRat(MinCenter(centers))} :
                   last' = Written([NoRun EXCEPT !.cell = "KMeans",
                                                  !.n_clusters = n,
                                                  !.again = again,
                                                  !.centers = centers,
                                                  !.thr = dynamic_threshold],
                                    Below(dfme_data, dynamic_threshold),
                                    "dfme_kmeans_thresholded.tif", meta)
        ELSE last' = [NoRun EXCEPT !.cell = "KMeans", !.n_clusters = n,
                                   !.again = again, !.err = "ValueError"]
    /\ UNCHANGED <<dem_file, dfme_file, thresh_file, road_file, roads_buffered,
                   dfme_data, meta, rng_stream>>

(***************************************************************************)
(* Specifications.                                                         *)
(***************************************************************************)
\* A fresh kernel: nothing bound, no cell run.
Fresh ==
    /\ roads_buffered = Unbound
    /\ dfme_data = Undef
    /\ meta = NoMeta
    /\ last = NoRun
    /\ rng_stream \in 1..MaxDraw

\* The four dynamic-thresholding cells, run in any order after the first,
\* beside a residual raster dfme.tif.
InitStrategies ==
    /\ Fresh
    /\ dem_file = NoFile /\ thresh_file = NoFile /\ road_file = NoFile
    /\ dfme_file \in Rasters

NextStrategies == StatCell \/ PctCell \/ LocalCell \/ KMeansCell

SpecStrategies == InitStrategies /\ [][NextStrategies]_vars

\* The cells that are to build a mask from one scalar threshold: Step 2
\* and the statistical, percentile and clustering cells.
InitMask ==
    /\ Fresh
    /\ dem_file = NoFile /\ thresh_file = NoFile /\ road_file = NoFile
    /\ dfme_file \in Rasters

NextMask == Step2 \/ StatCell \/ PctCell \/ KMeansCell

SpecMask == InitMask /\ [][NextMask]_vars

\* The statistical cell and the K-Means cell, run and re-run.
InitKMeans ==
    /\ Fresh
    /\ dem_file = NoFile /\ thresh_file = NoFile /\ road_file = NoFile
    /\ dfme_file \in Rasters

NextKMeans == StatCell \/ KMeansCell

SpecKMeans == InitKMeans /\ [][NextKMeans]_vars

\* Steps 2 to 5 beside a DEM and a candidate mask dfme_thresholded.tif,
\* on the same grid or another, with or without a road mask left on disk.
InitFusion ==
    /\ Fresh
    /\ dem_file \in DEMs
    /\ dfme_file = NoFile
    /\ thresh_file \in Masks
    /\ road_file \in RoadMasksLeft(dem_file)

NextFusion == Step2 \/ Step3 \/ Step4 \/ Step5

SpecFusion == InitFusion /\ [][NextFusion]_vars

\* The notebook: every code cell in one kernel, run and re-run in any
\* order, beside a DEM, a residual raster and a candidate mask of one row
\* and two columns each, with or without a road mask left on disk.
Init ==
    /\ Fresh
    /\ dem_file \in {f \in DEMs : f.h = 1 /\ f.w = 2}
    /\ dfme_file \in {f \in Rasters : f.h = 1 /\ f.w = 2 /\ f.nodata = NODATA}
    /\ thresh_file \in {f \in Masks : f.h = 1 /\ f.w = 2}
    /\ road_file \in RoadMasksLeft(dem_file)

Next ==
    \/ Step1 \/ Step2 \/ Step3 \/ Step4 \/ Step5
    \/ StatCell \/ PctCell \/ LocalCell \/ KMeansCell

Spec == Init /\ [][Next]_vars

(***************************************************************************)
(* Properties.                                                             *)
(***************************************************************************)
\* The last cell was c and ran to its end.
Done(c) == last.cell = c /\ last.err = ""

\* The last cell was c and it built its output array (the write that
\* follows may have failed).
Built(c) == last.cell = c /\ last.out # Undef

\* The write that ends the last cell went through exactly when the profile
\* it was given opens.
WroteIffOpens(m) ==
    IF Opens(m) THEN last.err = "" /\ last.wrote # "" /\ last.wmeta = m
    ELSE last.err = "ValueError" /\ last.wrote = ""

\* The cells that apply one scalar threshold to dfme_data.
ScalarCells == {"Stat", "Pct", "KMeans"}

\* x < t for a stored sample x, by cross-multiplication when t is rational.
SampleBelow(x, t) ==
    IF IsNaN(t) THEN FALSE
    ELSE IF t.b[1] = 0 THEN x * t.a[2] < t.a[1]
    ELSE FLess(Num(x), t)

NodataCells == {i \in 1..Len(dfme_file.v) : dfme_file.v[i] = dfme_file.nodata}
ValidCells == {i \in 1..Len(dfme_file.v) : dfme_file.v[i] # dfme_file.nodata}

\* C1 as claimed: under a scalar threshold t the mask is 1 exactly at the
\* valid cells below t, 0 at the valid cells not below t, and a nodata
\* cell stays nodata (neither 0 nor 1).
C1_MaskKeepsNodata ==
    \A c \in ScalarCells : Built(c) =>
        /\ \A i \in ValidCells :
              last.out.v[i] = (IF SampleBelow(dfme_file.v[i], last.thr) THEN 1 ELSE 0)
        /\ \A i \in NodataCells : last.out.v[i] \notin {0, 1}

\* Step 5 multiplied two rasters of one shape.
FusedSameShape ==
    /\ Done("Step5")
    /\ thresh_file.h = road_file.h /\ thresh_file.w = road_file.w

\* C2 as claimed: where either input cell is nodata the fused cell is
\* nodata, elsewhere it is the product of the two cells.
C2_FusionPropagatesNodata ==
    FusedSameShape =>
        \A i \in 1..Len(thresh_file.v) :
            IF thresh_file.v[i] = thresh_file.nodata \/ road_file.v[i] = road_file.nodata
            THEN last.out.v[i] \in {Num(thresh_file.nodata), Num(road_file.nodata)}
            ELSE last.out.v[i] = Num(thresh_file.v[i] * road_file.v[i])

\* C2 amended: every fused cell is the product of the two stored values, a
\* nodata cell entering as its sentinel (nodata * 0 is 0, a valid cell);
\* a fused cell is 1 exactly where both masks are 1, so the fusion flags no
\* cell that the candidate mask or the road mask does not flag.
C2_FusionIsRawProduct ==
    FusedSameShape =>
        /\ last.out.h = thresh_file.h /\ last.out.w = thresh_file.w
        /\ \A i \in 1..Len(thresh_file.v) :
            /\ ~IsNaN(last.out.v[i])
            /\ last.out.v[i].a = <<thresh_file.v[i] * road_file.v[i], 1>>
            /\ (last.out.v[i].a = <<1, 1>>) <=> (thresh_file.v[i] = 1 /\ road_file.v[i] = 1)

\* A fusion with a cell flagged by both masks and a nodata candidate cell
\* off the road, which came out 0.
C2_Witness ==
    /\ FusedSameShape
    /\ \E i \in 1..Len(thresh_file.v) : last.out.v[i] = Num(1)
    /\ \E i \in 1..Len(thresh_file.v) :
          /\ thresh_file.v[i] = thresh_file.nodata
          /\ road_file.v[i] = 0 /\ last.out.v[i] = Num(0)

ShapesDiffer == thresh_file.h # road_file.h \/ thresh_file.w # road_file.w

\* C3 as claimed: with masks of different width or height Step 5 always
\* fails and builds and writes nothing.
C3_MismatchAlwaysFails ==
    (last.cell = "Step5" /\ ShapesDiffer) =>
        last.err # "" /\ last.out = Undef /\ last.wrote = ""

Strategies == {"Stat", "Pct", "Local", "KMeans"}

\* What a cell that raised left behind: no threshold, no mask, no file.
BuiltNothing ==
    /\ IsNaN(last.thr) /\ last.grid = <<>> /\ last.centers = <<>>
    /\ last.out = Undef /\ last.wrote = ""

\* C4 as claimed: on a raster with no valid sample every strategy fails,
\* returns no threshold and builds and writes no mask.
C4_EmptyAlwaysFails ==
    (ValidCells = {} /\ last.cell \in Strategies) => (last.err # "" /\ BuiltNothing)

\* Some sample is valid and all valid samples have one value.
AllSame ==
    /\ ValidCells # {}
    /\ \A i, j \in ValidCells : dfme_file.v[i] = dfme_file.v[j]

\* C5 as claimed: when all valid samples are identical the statistical
\* cell with k # 0 and the clustering cell fail, return no threshold and
\* build no mask.
C5_DegenerateAlwaysFails ==
    (AllSame /\ ((last.cell = "Stat" /\ last.k # <<0, 1>>) \/ last.cell = "KMeans")) =>
        (last.err # "" /\ BuiltNothing)

\* C6: the local cell accepts odd block sizes only; with an even block_size
\* it fails (ValueError) before any per-cell threshold is computed, and no
\* mask is built or written.
C6_EvenBlockSizeRejected ==
    last.cell = "Local" =>
        IF last.block % 2 = 0
        THEN last.err = "ValueError" /\ BuiltNothing
        ELSE /\ Len(last.grid) = Len(dfme_data.v) /\ last.out # Undef
             /\ WroteIffOpens(meta)

\* The local cell was run with block_size = 10 and failed.
C6_Witness ==
    last.cell = "Local" /\ last.block = 10 /\ last.err = "ValueError" /\ dfme_data # Undef

RatLeq(p, q) == p[1] * q[2] <= q[1] * p[2]

OrderStat(j) ==
    LET x == CHOOSE y \in {dfme_file.v[i] : i \in ValidCells} :
                /\ Cardinality({i \in ValidCells : dfme_file.v[i] < y}) < j
                /\ j <= Cardinality({i \in ValidCells : dfme_file.v[i] <= y})
    IN  x

\* C8: with at least one valid sample, the percentile threshold is the
\* value interpolated linearly at rank p/100*(n-1) among the valid samples
\* sorted ascending, nodata cells ignored; at p = 50 it is their median.
C8_PercentileInterpolates ==
    (last.cell = "Pct" /\ ValidCells # {}) =>
        LET n   == Cardinality(ValidCells)
            pos == last.p * (n - 1)
            lo  == pos \div 100
            hi  == IF pos % 100 = 0 THEN lo ELSE lo + 1
            t   == last.thr
        IN  /\ ~IsNaN(t) /\ t.b = <<0, 1>>
            /\ 100 * t.a[1] =
                 t.a[2] * (100 * OrderStat(lo + 1)
                           + (pos % 100) * (OrderStat(hi + 1) - OrderStat(lo + 1)))
            /\ last.p = 50 =>
                 /\ 2 * Cardinality({i \in ValidCells :
                                       dfme_file.v[i] * t.a[2] <= t.a[1]}) >= n
                 /\ 2 * Cardinality({i \in ValidCells :
                                       dfme_file.v[i] * t.a[2] >= t.a[1]}) >= n
                 /\ n % 2 = 1 => t = Num(OrderStat((n + 1) \div 2))
                 /\ n % 2 = 0 => 2 * t.a[1] =
                        t.a[2] * (OrderStat(n \div 2) + OrderStat(n \div 2 + 1))

\* The percentile cell ran with p = 50 on a raster holding a nodata cell
\* and two different valid samples; the threshold lies between them.
C8_Witness ==
    /\ Built("Pct") /\ last.p = 50
    /\ NodataCells # {} /\ Cardinality(ValidCells) = 2 /\ ~AllSame
    /\ last.thr.a[2] = 2

RECURSIVE SumValid(_)
\* The sum of the valid samples among the first i cells of dfme.tif.
SumValid(i) ==
    IF i = 0 THEN 0
    ELSE SumValid(i - 1) + (IF dfme_file.v[i] = dfme_file.nodata THEN 0 ELSE dfme_file.v[i])

RECURSIVE SumSqValid(_)
\* The sum of their squares.
SumSqValid(i) ==
    IF i = 0 THEN 0
    ELSE SumSqValid(i - 1)
         + (IF dfme_file.v[i] = dfme_file.nodata THEN 0 ELSE dfme_file.v[i] * dfme_file.v[i])

\* C9: with at least one valid sample, the statistical threshold is
\* mean - k * sigma, mean and population standard deviation (variance
\* E[x^2] - E[x]^2) taken over the valid samples only; with k = 0 it is
\* exactly the mean.
C9_GlobalStatistical ==
    (last.cell = "Stat" /\ ValidCells # {}) =>
        LET n  == Cardinality(ValidCells)
            S  == SumValid(Len(dfme_file.v))
            Q  == SumSqValid(Len(dfme_file.v))
            mu == Rat(S, n)
            var == Rat(n * Q - S * S, n * n)
        IN  /\ ~IsNaN(last.thr)
            /\ last.thr.a = mu
            /\ (last.k = <<0, 1>> \/ var[1] = 0) => last.thr = FromRat(mu)
            /\ (last.k # <<0, 1>> /\ var[1] # 0) =>
                   /\ last.thr.v = var
                   /\ last.thr.b = Rat(-last.k[1], last.k[2])

\* The statistical cell ran with k = 1.5 on a raster with a nodata cell and
\* valid samples of non-zero spread.
C9_Witness ==
    /\ Built("Stat") /\ last.k = <<3, 2>>
    /\ NodataCells # {} /\ ValidCells # {} /\ ~AllSame
    /\ last.thr.b = <<-3, 2>>

\* The residual raster as the statistical cell loads it.
Residual == MaskNodata(ReadBand(dfme_file), dfme_file.nodata)

\* C10: no cell changes the raster another cell reads, so whatever ran
\* before, a strategy cell computes the threshold and the mask it would
\* compute on the residual raster alone.
C10_CellsArePure ==
    /\ last.cell \in Strategies => dfme_data = Residual
    /\ Built("Pct") =>
          /\ last.thr = NanPercentile(Residual, last.p)
          /\ last.out = Below(Residual, last.thr)
    /\ Built("KMeans") => last.out = Below(Residual, last.thr)
    /\ Built("Local") => last.grid = ThresholdLocal(Residual, last.block)


====
